---- MODULE Spec2Model ----
(***************************************************************************)
(* Model of arl (src/arl.go): one run of measureRatelimit, the worker      *)
(* goroutines it spawns, its dispatch loop, and the interrupt handling of  *)
(* main that closes the shared abort channel (Spec, FairSpec); the token   *)
(* source AzureTokenSource called in any order (SourceSpec); and main with *)
(* fetchTokens, one goroutine per token and their join (MainSpec).         *)
(*                                                                         *)
(* Channels are modelled by what Go defines for them:                      *)
(*   - ratelimitProbes is a buffered channel of capacity parallelRequests; *)
(*     all probes of a run are equal, so the buffer is its length;         *)
(*   - ratelimitReached and abort carry no value and are only closed;      *)
(*     closing a closed channel panics;                                    *)
(*   - errorChan is unbuffered: a sender blocks until the dispatch loop    *)
(*     receives from it.                                                   *)
(* A panic in any goroutine ends the process: no step follows it.          *)
(***************************************************************************)
EXTENDS Integers, Sequences, FiniteSets

\* Largest value of the -parallel-reqs flag explored.
MaxParallelRequests == 2

Workers == 1..MaxParallelRequests

\* Behaviours of the remote service as seen by get: "any" answers each call
\* freely, "error" fails every call, "ok" answers 200 to every call,
\* "other" answers every call with a status that is neither 200 nor 429,
\* "budget" answers 200 to its first successBudget calls and 429 afterwards.
Stubs == {"any", "error", "ok", "other", "budget"}

\* Largest success budget of the "budget" service explored.
MaxSuccessBudget == 3

\* Largest value of the -num-tokens flag explored.
MaxTokens == 3

\* Largest number of calls made on a token source by a free caller.
MaxCalls == 5

\* Token slots of main.
Slots == 1..MaxTokens

None == -1

VARIABLES
    parallelRequests,  \* the parallelRequests parameter of measureRatelimit
    stub,              \* behaviour of the remote service
    abort,             \* TRUE once main has closed the abort channel
    ratelimitProbes,   \* number of probes buffered in the work queue
    probesClosed,      \* TRUE once ratelimitProbes is closed
    ratelimitReached,  \* TRUE once ratelimitReached is closed
    numReqs,           \* the success counter
    wg,                \* counter of the WaitGroup of measureRatelimit
    dpc,               \* position of measureRatelimit
    wpc,               \* position of each worker goroutine
    reported,          \* termination reasons logged, in order
    probeErr,          \* worker whose error the dispatch loop received
    currentNumReqs,    \* value read from numReqs by the swap, or None
    panicked,          \* "none", or the panic that ended the process
    dispatched,        \* number of probes enqueued so far
    successBudget,     \* calls the "budget" service answers with 200
    getCalls,          \* calls the "budget" service has answered
    numTokens,         \* the -num-tokens flag
    spt,               \* ts.spt: 0 for nil, else the access token it holds
    calls,             \* calls made on the token source, with their results
    tokens,            \* the tokens slice of fetchTokens, then of main
    fetchErr,          \* the error fetchTokens returned, or "nil"
    mpc,               \* position of main
    i,                 \* loop variable of fetchTokens
    runs,              \* per token slot: position and token of its goroutine
    mainWg             \* counter of the WaitGroup of main

vars == <<parallelRequests, stub, abort, ratelimitProbes, probesClosed,
          ratelimitReached, numReqs, wg, dpc, wpc, reported, probeErr,
          currentNumReqs, panicked, dispatched, successBudget, getCalls,
          numTokens, spt, calls, tokens, fetchErr, mpc, i, runs, mainWg>>

\* State of main and of its token source.
mainVars == <<numTokens, spt, calls, tokens, fetchErr, mpc, i, runs, mainWg>>

\* State of one run of measureRatelimit and of the service it probes.
runVars == <<parallelRequests, stub, successBudget, getCalls, ratelimitProbes,
             probesClosed, ratelimitReached, numReqs, wg, dpc, wpc, reported,
             probeErr, currentNumReqs, dispatched>>

\* Variables no worker step and no dispatcher step changes.
envVars == <<parallelRequests, stub, successBudget, abort, mainVars>>

Running == panicked = "none"

\* Workers of this run (goroutines started by the loop at line 96).
Pool == 1..parallelRequests

\* Outcomes get can produce under the given service behaviour.
get(s) ==
    CASE s = "error"  -> {"err"}
      [] s = "ok"     -> {"200"}
      [] s = "other"  -> {"other"}
      [] s = "budget" -> IF getCalls < successBudget THEN {"200"} ELSE {"429"}
      [] OTHER        -> {"err", "200", "429", "other"}

\* The "budget" service counts the calls it answers.
Answered == IF stub = "budget" THEN getCalls + 1 ELSE getCalls

\* main before its first step: flags parsed, token source created with a
\* nil spt (NewAzureTokenSource), nothing fetched, no goroutine started.
MainIdle ==
    /\ spt = 0
    /\ calls = <<>>
    /\ tokens = <<>>
    /\ fetchErr = "nil"
    /\ mpc = "fetch"
    /\ i = 0
    /\ runs = [t \in Slots |-> [pc |-> "none", token |-> 0]]
    /\ mainWg = 0

Init ==
    /\ parallelRequests \in 1..MaxParallelRequests
    /\ stub \in Stubs
    /\ successBudget \in (IF stub = "budget" THEN 0..MaxSuccessBudget ELSE {0})
    /\ getCalls = 0
    /\ numTokens = 1
    /\ MainIdle
    /\ abort = FALSE
    /\ ratelimitProbes = 0
    /\ probesClosed = FALSE
    /\ ratelimitReached = FALSE
    /\ numReqs = 0
    /\ wg = 0
    /\ dpc = "init"
    /\ wpc = [w \in Workers |-> "unused"]
    /\ reported = <<>>
    /\ probeErr = 0
    /\ currentNumReqs = None
    /\ panicked = "none"
    /\ dispatched = 0

\* main: the interrupt arrives and main closes the abort channel.
Interrupt ==
    /\ Running
    /\ ~abort
    /\ abort' = TRUE
    /\ UNCHANGED <<runVars, mainVars, panicked>>

\* measureRatelimit is invoked: channels made, one wg.Add(1) and one
\* goroutine per worker, then the dispatch loop is entered.
Start ==
    /\ Running
    /\ dpc = "init"
    /\ wg' = wg + parallelRequests
    /\ wpc' = [w \in Workers |-> IF w \in Pool THEN "recv" ELSE "unused"]
    /\ dpc' = "select"
    /\ UNCHANGED <<envVars, getCalls, ratelimitProbes, probesClosed, ratelimitReached,
                   numReqs, reported, probeErr, currentNumReqs, panicked,
                   dispatched>>

----
\* Worker goroutine (lines 98-110).

\* range ratelimitProbes yields a buffered probe (also after the close).
WorkerRecv(w) ==
    /\ Running
    /\ wpc[w] = "recv"
    /\ ratelimitProbes > 0
    /\ ratelimitProbes' = ratelimitProbes - 1
    /\ wpc' = [wpc EXCEPT ![w] = "get"]
    /\ UNCHANGED <<envVars, getCalls, probesClosed, ratelimitReached, numReqs, wg, dpc,
                   reported, probeErr, currentNumReqs, panicked, dispatched>>

\* range ratelimitProbes ends: the channel is closed and drained.
WorkerExit(w) ==
    /\ Running
    /\ wpc[w] = "recv"
    /\ ratelimitProbes = 0
    /\ probesClosed
    /\ wpc' = [wpc EXCEPT ![w] = "exited"]
    /\ UNCHANGED <<envVars, getCalls, ratelimitProbes, probesClosed, ratelimitReached,
                   numReqs, wg, dpc, reported, probeErr, currentNumReqs,
                   panicked, dispatched>>

\* get returns an error: the worker goes on to send it on errorChan.
WorkerGetErr(w) ==
    /\ Running
    /\ wpc[w] = "get"
    /\ "err" \in get(stub)
    /\ wpc' = [wpc EXCEPT ![w] = "sendErr"]
    /\ UNCHANGED <<envVars, getCalls, ratelimitProbes, probesClosed, ratelimitReached,
                   numReqs, wg, dpc, reported, probeErr, currentNumReqs,
                   panicked, dispatched>>

\* get returns 200: the worker goes on to count the success.
WorkerGetOK(w) ==
    /\ Running
    /\ wpc[w] = "get"
    /\ "200" \in get(stub)
    /\ getCalls' = Answered
    /\ wpc' = [wpc EXCEPT ![w] = "add"]
    /\ UNCHANGED <<envVars, ratelimitProbes, probesClosed, ratelimitReached,
                   numReqs, wg, dpc, reported, probeErr, currentNumReqs,
                   panicked, dispatched>>

\* atomic.AddUint64(&numReqs, 1).
WorkerAdd(w) ==
    /\ Running
    /\ wpc[w] = "add"
    /\ numReqs' = numReqs + 1
    /\ wpc' = [wpc EXCEPT ![w] = "done"]
    /\ UNCHANGED <<envVars, getCalls, ratelimitProbes, probesClosed,
                   ratelimitReached, wg, dpc, reported, probeErr,
                   currentNumReqs, panicked, dispatched>>

\* get returns 429: close(ratelimitReached); closing a closed channel panics.
WorkerGetThrottled(w) ==
    /\ Running
    /\ wpc[w] = "get"
    /\ "429" \in get(stub)
    /\ getCalls' = Answered
    /\ IF ratelimitReached
         THEN /\ panicked' = "close of closed channel"
              /\ UNCHANGED <<ratelimitReached, wpc>>
         ELSE /\ ratelimitReached' = TRUE
              /\ wpc' = [wpc EXCEPT ![w] = "done"]
              /\ UNCHANGED panicked
    /\ UNCHANGED <<envVars, ratelimitProbes, probesClosed, numReqs, wg, dpc,
                   reported, probeErr, currentNumReqs, dispatched>>

\* get returns any other status: no branch of the if chain is taken.
WorkerGetOther(w) ==
    /\ Running
    /\ wpc[w] = "get"
    /\ "other" \in get(stub)
    /\ wpc' = [wpc EXCEPT ![w] = "done"]
    /\ UNCHANGED <<envVars, getCalls, ratelimitProbes, probesClosed, ratelimitReached,
                   numReqs, wg, dpc, reported, probeErr, currentNumReqs,
                   panicked, dispatched>>

\* wg.Done() at the end of the loop body, once per probe; a negative
\* WaitGroup counter panics.
WorkerDone(w) ==
    /\ Running
    /\ wpc[w] = "done"
    /\ IF wg - 1 < 0
         THEN /\ panicked' = "negative WaitGroup counter"
              /\ UNCHANGED <<wg, wpc>>
         ELSE /\ wg' = wg - 1
              /\ wpc' = [wpc EXCEPT ![w] = "recv"]
              /\ UNCHANGED panicked
    /\ UNCHANGED <<envVars, getCalls, ratelimitProbes, probesClosed, ratelimitReached,
                   numReqs, dpc, reported, probeErr, currentNumReqs,
                   dispatched>>

Worker(w) ==
    \/ WorkerRecv(w)
    \/ WorkerExit(w)
    \/ WorkerGetErr(w)
    \/ WorkerGetOK(w)
    \/ WorkerAdd(w)
    \/ WorkerGetThrottled(w)
    \/ WorkerGetOther(w)
    \/ WorkerDone(w)

----
\* Dispatch loop (lines 113-133) and the deferred wg.Wait (line 93).

\* Workers blocked in errorChan <- err: the select can receive from them.
errorChan == {w \in Workers : wpc[w] = "sendErr"}

\* case <-ratelimitReached: end := time.Now(); close(ratelimitProbes).
DispatchLimit ==
    /\ Running
    /\ dpc = "select"
    /\ ratelimitReached
    /\ probesClosed' = TRUE
    /\ dpc' = "swap"
    /\ UNCHANGED <<envVars, getCalls, ratelimitProbes, ratelimitReached, numReqs, wg,
                   wpc, reported, probeErr, currentNumReqs, panicked,
                   dispatched>>

\* DispatchSwap with atomic.LoadUint64 in place of the swap.
DispatchSwap_LoadOnly ==
    /\ Running
    /\ dpc = "swap"
    /\ currentNumReqs' = numReqs
    /\ reported' = Append(reported, "limit-reached")
    /\ dpc' = "wait"
    /\ UNCHANGED <<envVars, getCalls, ratelimitProbes, probesClosed, ratelimitReached,
                   numReqs, wg, wpc, probeErr, panicked, dispatched>>

\* atomic.SwapUint64(&numReqs, 0), log the throughput, return.
DispatchSwap ==
    /\ Running
    /\ dpc = "swap"
    /\ currentNumReqs' = numReqs
    /\ numReqs' = 0
    /\ reported' = Append(reported, "limit-reached")
    /\ dpc' = "wait"
    /\ UNCHANGED <<envVars, getCalls, ratelimitProbes, probesClosed, ratelimitReached,
                   wg, wpc, probeErr, panicked, dispatched>>

\* DispatchAbort that also reads and resets the counter.
DispatchAbort_Swap ==
    /\ Running
    /\ dpc = "select"
    /\ abort
    /\ probesClosed' = TRUE
    /\ currentNumReqs' = numReqs
    /\ numReqs' = 0
    /\ reported' = Append(reported, "aborted")
    /\ dpc' = "wait"
    /\ UNCHANGED <<envVars, getCalls, ratelimitProbes, ratelimitReached, wg,
                   wpc, probeErr, panicked, dispatched>>

\* DispatchAbort with the return forgotten: the loop goes on selecting.
DispatchAbort_NoReturn ==
    /\ Running
    /\ dpc = "select"
    /\ abort
    /\ probesClosed' = TRUE
    /\ reported' = Append(reported, "aborted")
    /\ dpc' = "select"
    /\ UNCHANGED <<envVars, getCalls, ratelimitProbes, ratelimitReached, numReqs, wg,
                   wpc, probeErr, currentNumReqs, panicked, dispatched>>

\* case <-abort: close(ratelimitProbes), log, return.
DispatchAbort ==
    /\ Running
    /\ dpc = "select"
    /\ abort
    /\ probesClosed' = TRUE
    /\ reported' = Append(reported, "aborted")
    /\ dpc' = "wait"
    /\ UNCHANGED <<envVars, getCalls, ratelimitProbes, ratelimitReached, numReqs, wg,
                   wpc, probeErr, currentNumReqs, panicked, dispatched>>

\* DispatchError that falls into the default branch instead of returning.
DispatchError_NoReturn(w) ==
    /\ Running
    /\ dpc = "select"
    /\ w \in errorChan
    /\ wpc' = [wpc EXCEPT ![w] = "done"]
    /\ probeErr' = w
    /\ probesClosed' = TRUE
    /\ reported' = Append(reported, "error")
    /\ dpc' = "send"
    /\ UNCHANGED <<envVars, getCalls, ratelimitProbes, ratelimitReached, numReqs, wg,
                   currentNumReqs, panicked, dispatched>>

\* case probeErr := <-errorChan: the send of worker w completes;
\* close(ratelimitProbes), log, return.
DispatchError(w) ==
    /\ Running
    /\ dpc = "select"
    /\ w \in errorChan
    /\ wpc' = [wpc EXCEPT ![w] = "done"]
    /\ probeErr' = w
    /\ probesClosed' = TRUE
    /\ reported' = Append(reported, "error")
    /\ dpc' = "wait"
    /\ UNCHANGED <<envVars, getCalls, ratelimitProbes, ratelimitReached, numReqs, wg,
                   currentNumReqs, panicked, dispatched>>

\* DispatchDefault taken although a case of the select may be ready.
DispatchDefault_Unguarded ==
    /\ Running
    /\ dpc = "select"
    /\ dpc' = "send"
    /\ UNCHANGED <<envVars, getCalls, ratelimitProbes, probesClosed,
                   ratelimitReached, numReqs, wg, wpc, reported, probeErr,
                   currentNumReqs, panicked, dispatched>>

\* default: taken only when no case of the select is ready.
DispatchDefault ==
    /\ Running
    /\ dpc = "select"
    /\ ~ratelimitReached
    /\ ~abort
    /\ errorChan = {}
    /\ dpc' = "send"
    /\ UNCHANGED <<envVars, getCalls, ratelimitProbes, probesClosed, ratelimitReached,
                   numReqs, wg, wpc, reported, probeErr, currentNumReqs,
                   panicked, dispatched>>

\* ratelimitProbes <- ratelimitProbe{URL, token}: a plain send, which
\* blocks while the buffer is full.
DispatchSend ==
    /\ Running
    /\ dpc = "send"
    /\ ratelimitProbes < parallelRequests
    /\ ratelimitProbes' = ratelimitProbes + 1
    /\ dispatched' = dispatched + 1
    /\ dpc' = "select"
    /\ UNCHANGED <<envVars, getCalls, probesClosed, ratelimitReached, numReqs, wg, wpc,
                   reported, probeErr, currentNumReqs, panicked>>

\* defer wg.Wait(): measureRatelimit returns once the counter is zero.
DispatchWait ==
    /\ Running
    /\ dpc = "wait"
    /\ wg = 0
    /\ dpc' = "returned"
    /\ UNCHANGED <<envVars, getCalls, ratelimitProbes, probesClosed, ratelimitReached,
                   numReqs, wg, wpc, reported, probeErr, currentNumReqs,
                   panicked, dispatched>>

Dispatcher ==
    \/ DispatchLimit
    \/ DispatchSwap
    \/ DispatchAbort
    \/ \E w \in Workers : DispatchError(w)
    \/ DispatchDefault
    \/ DispatchSend
    \/ DispatchWait

----
Next ==
    \/ Interrupt
    \/ Start
    \/ Dispatcher
    \/ \E w \in Workers : Worker(w)

Spec == Init /\ [][Next]_vars

\* The Go scheduler runs every goroutine that can take a step, and every
\* HTTP call in flight returns; the interrupt is the operator's and may
\* never come.
FairSpec ==
    /\ Spec
    /\ WF_vars(Start)
    /\ WF_vars(Dispatcher)
    /\ \A w \in Workers : WF_vars(Worker(w))

----
\* Token source (AzureTokenSource) and fetchTokens.

\* A nil *ServicePrincipalToken, and the empty token string.
Nil == 0

\* The access token the identity provider issues next: tokens are numbered
\* in the order they are issued.
NextToken == Cardinality({k \in 1..Len(calls) : calls[k].err = "nil"}) + 1

\* AzureTokenSource.Token: ts.spt is assigned the result of the device
\* flow, nil when the flow fails, and then dereferenced.
Token(flow) ==
    IF flow
      THEN [spt |-> NextToken, token |-> NextToken, err |-> "nil",
            panic |-> FALSE]
      ELSE [spt |-> Nil, token |-> Nil, err |-> "device flow",
            panic |-> TRUE]

\* Refresh without the nil check.
Refresh_NoNilCheck(ok) ==
    IF ok
      THEN [spt |-> NextToken, token |-> NextToken, err |-> "nil",
            panic |-> FALSE]
      ELSE [spt |-> spt, token |-> spt, err |-> "refresh", panic |-> FALSE]

\* AzureTokenSource.Refresh: a usage error on a nil spt, else the token is
\* refreshed and its AccessToken returned together with the error, if any.
Refresh(ok) ==
    IF spt = Nil
      THEN [spt |-> spt, token |-> Nil, err |-> "usage", panic |-> FALSE]
      ELSE IF ok
        THEN [spt |-> NextToken, token |-> NextToken, err |-> "nil",
              panic |-> FALSE]
        ELSE [spt |-> spt, token |-> spt, err |-> "refresh", panic |-> FALSE]

\* A method of the token source is called and yields r.
Invoke(method, r) ==
    /\ spt' = r.spt
    /\ calls' = Append(calls, [method |-> method, token |-> r.token,
                               err |-> r.err])
    /\ panicked' = IF r.panic THEN "nil pointer dereference" ELSE panicked

\* Some caller calls Token on the source.
CallToken(flow) ==
    /\ Running
    /\ Len(calls) < MaxCalls
    /\ Invoke("Token", Token(flow))
    /\ UNCHANGED <<runVars, abort, numTokens, tokens, fetchErr, mpc, i, runs,
                   mainWg>>

\* Some caller calls Refresh on the source.
CallRefresh(ok) ==
    /\ Running
    /\ Len(calls) < MaxCalls
    /\ Invoke("Refresh", Refresh(ok))
    /\ UNCHANGED <<runVars, abort, numTokens, tokens, fetchErr, mpc, i, runs,
                   mainWg>>

\* fetchTokens, lines 40-46: the first token comes from Token; an error
\* is returned to main, which ends the process with log.Fatalf.
FetchToken(flow) ==
    /\ Running
    /\ mpc = "fetch"
    /\ Invoke("Token", Token(flow))
    /\ LET r == Token(flow) IN
         IF r.panic
           THEN UNCHANGED <<tokens, fetchErr, mpc, i>>
           ELSE IF r.err # "nil"
             THEN /\ tokens' = <<>>
                  /\ fetchErr' = r.err
                  /\ mpc' = "fatal"
                  /\ UNCHANGED i
             ELSE /\ tokens' = <<r.token>>
                  /\ i' = 2
                  /\ mpc' = "refresh"
                  /\ UNCHANGED fetchErr
    /\ UNCHANGED <<runVars, abort, numTokens, runs, mainWg>>

\* fetchTokens, lines 48-54: one Refresh per further token; an error is
\* returned to main, which ends the process with log.Fatalf.
FetchRefresh(ok) ==
    /\ Running
    /\ mpc = "refresh"
    /\ i <= numTokens
    /\ Invoke("Refresh", Refresh(ok))
    /\ LET r == Refresh(ok) IN
         IF r.err # "nil"
           THEN /\ tokens' = <<>>
                /\ fetchErr' = r.err
                /\ mpc' = "fatal"
                /\ UNCHANGED i
           ELSE /\ tokens' = Append(tokens, r.token)
                /\ i' = i + 1
                /\ UNCHANGED <<fetchErr, mpc>>
    /\ UNCHANGED <<runVars, abort, numTokens, runs, mainWg>>

\* fetchTokens returns the tokens; main registers the interrupt handler.
FetchReturn ==
    /\ Running
    /\ mpc = "refresh"
    /\ i > numTokens
    /\ mpc' = "spawn"
    /\ UNCHANGED <<runVars, abort, panicked, numTokens, spt, calls, tokens,
                   fetchErr, i, runs, mainWg>>

----
\* main, lines 158-176, with each run of measureRatelimit taken as a call
\* that may return, may never return, or may end the process by a panic.

\* Token slots for which main has not yet started a goroutine.
Unspawned == {t \in 1..Len(tokens) : runs[t].pc = "none"}

\* The process is running: no panic, no log.Fatalf, main has not returned.
Alive == Running /\ mpc \notin {"fatal", "exited"}

\* One iteration of the range over tokens: wg.Add(1) and go func.
MainSpawn ==
    /\ Alive
    /\ mpc = "spawn"
    /\ Unspawned # {}
    /\ LET t == CHOOSE u \in Unspawned : \A v \in Unspawned : u <= v IN
         runs' = [runs EXCEPT ![t] = [pc |-> "spawned", token |-> tokens[t]]]
    /\ mainWg' = mainWg + 1
    /\ UNCHANGED <<runVars, abort, panicked, numTokens, spt, calls, tokens,
                   fetchErr, mpc, i>>

\* <-interrupt, then close(abort).
MainInterrupt ==
    /\ Alive
    /\ mpc = "spawn"
    /\ Unspawned = {}
    /\ ~abort
    /\ abort' = TRUE
    /\ mpc' = "wait"
    /\ UNCHANGED <<runVars, panicked, numTokens, spt, calls, tokens, fetchErr,
                   i, runs, mainWg>>

\* wg.Wait() of main, then main returns and the process exits.
MainWait ==
    /\ Alive
    /\ mpc = "wait"
    /\ mainWg = 0
    /\ mpc' = "exited"
    /\ UNCHANGED <<runVars, abort, panicked, numTokens, spt, calls, tokens,
                   fetchErr, i, runs, mainWg>>

\* The goroutine of slot t calls measureRatelimit.
RunInvoke(t) ==
    /\ Alive
    /\ runs[t].pc = "spawned"
    /\ runs' = [runs EXCEPT ![t].pc = "running"]
    /\ UNCHANGED <<runVars, abort, panicked, numTokens, spt, calls, tokens,
                   fetchErr, mpc, i, mainWg>>

\* measureRatelimit of slot t returns.
RunReturn(t) ==
    /\ Alive
    /\ runs[t].pc = "running"
    /\ runs' = [runs EXCEPT ![t].pc = "returned"]
    /\ UNCHANGED <<runVars, abort, panicked, numTokens, spt, calls, tokens,
                   fetchErr, mpc, i, mainWg>>

\* A worker of the run of slot t panics (second close of ratelimitReached,
\* or wg.Done on a zero counter).
RunPanic(t) ==
    /\ Alive
    /\ runs[t].pc = "running"
    /\ panicked' \in {"close of closed channel", "negative WaitGroup counter"}
    /\ UNCHANGED <<runVars, abort, numTokens, spt, calls, tokens, fetchErr,
                   mpc, i, runs, mainWg>>

\* wg.Done() of main's WaitGroup after measureRatelimit returned.
RunDone(t) ==
    /\ Alive
    /\ runs[t].pc = "returned"
    /\ runs' = [runs EXCEPT ![t].pc = "done"]
    /\ mainWg' = mainWg - 1
    /\ UNCHANGED <<runVars, abort, panicked, numTokens, spt, calls, tokens,
                   fetchErr, mpc, i>>

\* A run of measureRatelimit that has not been invoked.
RunIdle ==
    /\ parallelRequests = 1
    /\ stub = "any"
    /\ successBudget = 0
    /\ getCalls = 0
    /\ ratelimitProbes = 0
    /\ probesClosed = FALSE
    /\ ratelimitReached = FALSE
    /\ numReqs = 0
    /\ wg = 0
    /\ dpc = "init"
    /\ wpc = [w \in Workers |-> "unused"]
    /\ reported = <<>>
    /\ probeErr = 0
    /\ currentNumReqs = None
    /\ dispatched = 0

MainInit ==
    /\ RunIdle
    /\ abort = FALSE
    /\ panicked = "none"
    /\ numTokens \in 1..MaxTokens
    /\ MainIdle

MainNext ==
    \/ \E flow \in BOOLEAN : FetchToken(flow)
    \/ \E ok \in BOOLEAN : FetchRefresh(ok)
    \/ FetchReturn
    \/ MainSpawn
    \/ MainInterrupt
    \/ MainWait
    \/ \E t \in Slots : RunInvoke(t)
    \/ \E t \in Slots : RunReturn(t)
    \/ \E t \in Slots : RunPanic(t)
    \/ \E t \in Slots : RunDone(t)

\* main of arl: token acquisition, then the runs and their join.
MainSpec == MainInit /\ [][MainNext]_vars

\* A token source created by NewAzureTokenSource and called in any order.
SourceInit ==
    /\ RunIdle
    /\ abort = FALSE
    /\ panicked = "none"
    /\ numTokens = 1
    /\ MainIdle

SourceNext ==
    \/ \E flow \in BOOLEAN : CallToken(flow)
    \/ \E ok \in BOOLEAN : CallRefresh(ok)

SourceSpec == SourceInit /\ [][SourceNext]_vars

TypeOK ==
    /\ parallelRequests \in 1..MaxParallelRequests
    /\ stub \in Stubs
    /\ successBudget \in 0..MaxSuccessBudget
    /\ getCalls \in Nat
    /\ abort \in BOOLEAN
    /\ ratelimitProbes \in 0..parallelRequests
    /\ probesClosed \in BOOLEAN
    /\ ratelimitReached \in BOOLEAN
    /\ numReqs \in Nat
    /\ wg \in Nat
    /\ dpc \in {"init", "select", "send", "swap", "wait", "returned"}
    /\ wpc \in [Workers -> {"unused", "recv", "get", "add", "sendErr",
                           "done", "exited"}]
    /\ reported \in Seq({"limit-reached", "aborted", "error"})
    /\ probeErr \in 0..MaxParallelRequests
    /\ currentNumReqs \in Nat \cup {None}
    /\ panicked \in {"none", "close of closed channel",
                      "negative WaitGroup counter", "nil pointer dereference"}
    /\ dispatched \in Nat
    /\ numTokens \in 1..MaxTokens
    /\ spt \in Nat
    /\ \A k \in 1..Len(calls) :
          /\ calls[k].method \in {"Token", "Refresh"}
          /\ calls[k].token \in Nat
          /\ calls[k].err \in {"nil", "device flow", "refresh", "usage"}
    /\ tokens \in Seq(Nat)
    /\ fetchErr \in {"nil", "device flow", "refresh", "usage"}
    /\ mpc \in {"fetch", "refresh", "fatal", "spawn", "wait", "exited"}
    /\ i \in 0..(MaxTokens + 1)
    /\ \A t \in Slots :
          /\ runs[t].pc \in {"none", "spawned", "running", "returned", "done"}
          /\ runs[t].token \in Nat
    /\ mainWg \in 0..MaxTokens

----
\* Claims.

\* A worker takes a probe from the work queue and starts executing it.
StartsProbe(w) == wpc[w] = "recv" /\ wpc'[w] = "get"

\* The dispatch loop has left its select for good.
LoopLeft == dpc \in {"swap", "wait", "returned"}

\* C1: at most one termination reason is ever reported, and once a reason
\* is reported the dispatch loop enqueues no further probe.
C1_OneReasonThenNoDispatch ==
    /\ [](Len(reported) <= 1)
    /\ [][reported # <<>> => dispatched' = dispatched]_vars

\* C1 witness: a reason was reported after probes were dispatched, while a
\* second termination condition (limit reached and abort) was also ready.
C1_Witness ==
    /\ Len(reported) = 1
    /\ dispatched > 0
    /\ ratelimitReached
    /\ abort

\* C2: raising the limit-reached signal a second time is a no-op that
\* faults nothing: no run ends in a panic on closing ratelimitReached.
C2_RaiseLimitIdempotent == panicked # "close of closed channel"

\* C3: a worker that forwards a transport error after the dispatch loop has
\* terminated completes the forward and is not left blocked on errorChan
\* (nothing receives from errorChan once the loop is left).
C3_ForwardNeverBlocksAfterLoop == LoopLeft => errorChan = {}

\* C4: whenever measureRatelimit has returned, every worker of the run has
\* exited its loop.
C4_ReturnedImpliesWorkersExited ==
    dpc = "returned" => \A w \in Pool : wpc[w] = "exited"

\* C5: once the dispatch loop has closed the work queue, the run
\* eventually returns to its caller.
C5_ClosedLeadsToReturn == probesClosed ~> (dpc = "returned")

\* C6: if abort is raised before measureRatelimit is invoked, the run
\* returns with no probe ever enqueued and with reason aborted.
C6_AbortBeforeInvoke ==
    (dpc = "init" /\ abort)
        ~> (dpc = "returned" /\ dispatched = 0 /\ reported = <<"aborted">>)

\* C7: the dispatch loop never blocks on the work queue: it is never
\* waiting to enqueue on a full queue while a termination signal is raised.
C7_DispatchNeverBlocksOnFullQueue ==
    ~ /\ dpc = "send"
      /\ ratelimitProbes = parallelRequests
      /\ (ratelimitReached \/ abort \/ errorChan # {})

\* C8: when every probe fails with a transport error, no interleaving
\* leaves the dispatcher and all workers blocked with no reason reported.
C8_AllErrorsNeverDeadlock ==
    stub = "error" =>
        ~ /\ reported = <<>>
          /\ dpc = "send"
          /\ ratelimitProbes = parallelRequests
          /\ \A w \in Pool : wpc[w] = "sendErr"

\* C9 as stated: after the dispatch loop has detected a termination
\* condition, no worker begins executing a new probe.
C9_NoProbeStartedAfterDetection ==
    [][probesClosed => \A w \in Workers : ~StartsProbe(w)]_vars

\* C9 amended: after detection no probe is enqueued any more, and a worker
\* starts a probe only by taking one that was buffered at detection.
C9_OnlyBufferedProbesStartAfterDetection ==
    [][probesClosed =>
          /\ ratelimitProbes' <= ratelimitProbes
          /\ dispatched' = dispatched
          /\ \A w \in Workers :
                StartsProbe(w) => ratelimitProbes' = ratelimitProbes - 1]_vars

\* C9 witness: the worker whose error ended the dispatch loop has since
\* taken a buffered probe and is executing it.
C9_Witness ==
    /\ probesClosed
    /\ reported = <<"error">>
    /\ probeErr \in Pool
    /\ wpc[probeErr] = "get"

\* C10 as stated: after the read-and-reset the counter stays at 0.
C10_CounterFrozenAtZero == currentNumReqs # None => numReqs = 0

\* C10 amended: the counter is read exactly once, by a swap that takes its
\* value and leaves it at 0 at that moment, when limit-reached is reported.
C10_ReadOnceByReset ==
    [][currentNumReqs' # currentNumReqs =>
          /\ currentNumReqs = None
          /\ currentNumReqs' = numReqs
          /\ numReqs' = 0
          /\ reported' = <<"limit-reached">>]_vars

\* C10 witness: the swap read a positive count, and a probe that was in
\* flight has since completed with HTTP 200.
C10_Witness ==
    /\ currentNumReqs # None
    /\ currentNumReqs > 0
    /\ numReqs > 0

\* C11: against a service that answers 200 to its first successBudget
\* calls and 429 afterwards, a run that is not aborted ends by reporting
\* limit-reached with a success count n, successBudget - parallelRequests
\* <= n <= successBudget.
C11_BudgetThenThrottled ==
    (stub = "budget" /\ dpc = "init")
        ~> \/ abort
           \/ /\ reported = <<"limit-reached">>
              /\ successBudget - parallelRequests <= currentNumReqs
              /\ currentNumReqs <= successBudget

\* C12: against a service that always answers 200 the run raises neither
\* the limit-reached nor the error signal and never stops or faults on its
\* own; the only reason it ever reports is aborted.
C12_AlwaysSuccessOnlyAbortEnds ==
    stub = "ok" =>
        /\ panicked = "none"
        /\ ~ratelimitReached
        /\ errorChan = {}
        /\ reported \in {<<>>, <<"aborted">>}
        /\ (reported = <<"aborted">> => abort)

\* C13: the success counter is read (and reset) only by the run that
\* reports limit-reached, and the count read is non-negative; a run that
\* reports aborted or error has no count and never lowers the counter.
C13_ThroughputOnlyOnLimitReached ==
    /\ [](currentNumReqs # None <=> reported = <<"limit-reached">>)
    /\ [](currentNumReqs # None => currentNumReqs >= 0)
    /\ [][numReqs' < numReqs => reported' = <<"limit-reached">>]_vars
    /\ [][(reported = <<"aborted">> \/ reported = <<"error">>)
            => numReqs' >= numReqs]_vars

\* C13 witness: the run reported aborted (or error) after successes had
\* been counted; the counter still holds them and no count was read.
C13_Witness ==
    /\ reported \in {<<"aborted">>, <<"error">>}
    /\ numReqs > 0
    /\ currentNumReqs = None

\* The select of the dispatch loop is left by this step.
SelectTaken == dpc = "select" /\ dpc' # "select"

\* C18 as stated: when several termination conditions are ready the loop
\* acts on limit-reached first, then on abort, then on the error.
C18_FixedPriority ==
    [][SelectTaken =>
          /\ ratelimitReached => dpc' = "swap"
          /\ (~ratelimitReached /\ abort) => reported' = <<"aborted">>]_vars

\* C18 amended: the loop acts on exactly one condition that is ready,
\* whichever it is, and takes the default branch only when none is ready.
C18_SomeReadyCase ==
    [][SelectTaken =>
          \/ ratelimitReached /\ dpc' = "swap" /\ reported' = reported
          \/ abort /\ reported' = <<"aborted">>
          \/ /\ probeErr' \in errorChan
             /\ reported' = <<"error">>
          \/ /\ ~ratelimitReached
             /\ ~abort
             /\ errorChan = {}
             /\ dpc' = "send"
             /\ reported' = reported]_vars

\* C18 witness: the loop reported the error of the only worker, which has
\* not moved since, although that worker had raised limit-reached before.
C18_Witness ==
    /\ parallelRequests = 1
    /\ reported = <<"error">>
    /\ probeErr = 1
    /\ wpc[1] = "done"
    /\ ratelimitReached

\* C19: a probe answered with a status other than 200 and 429 leaves the
\* counter and the three signals unchanged, and a service that only gives
\* such answers never ends the run except through abort.
C19_OtherStatusChangesNothing ==
    /\ [][\A w \in Workers :
            (stub = "other" /\ wpc[w] = "get" /\ wpc'[w] # "get") =>
                /\ wpc'[w] = "done"
                /\ UNCHANGED <<numReqs, ratelimitReached, abort>>
                /\ errorChan' = errorChan]_vars
    /\ [](stub = "other" =>
            /\ panicked = "none"
            /\ reported = <<>> \/ (reported = <<"aborted">> /\ abort))

\* C20: the WaitGroup of a run is balanced: its counter is never negative
\* and equals the number of workers that have not yet exited.
C20_WaitGroupBalanced ==
    dpc # "init" =>
        /\ panicked # "negative WaitGroup counter"
        /\ wg >= 0
        /\ wg = Cardinality({w \in Pool : wpc[w] # "exited"})

\* The last call made on the token source.
LastCall == calls[Len(calls)]

\* Some call on the token source has failed.
SomeCallFailed == \E k \in 1..Len(calls) : calls[k].err # "nil"

\* Goroutines of main that have been started and whose measureRatelimit
\* has not returned.
Unreturned == {t \in Slots : runs[t].pc \in {"spawned", "running"}}

\* C14: fetchTokens calls Token once and first, then Refresh, at most
\* numTokens calls in all and none after a failed one; on success it
\* returns the numTokens tokens in acquisition order, and when a call
\* fails it returns that call's error and no tokens.
C14_FetchTokens ==
    /\ Len(calls) <= numTokens
    /\ \A k \in 1..Len(calls) :
          /\ calls[k].method = (IF k = 1 THEN "Token" ELSE "Refresh")
          /\ k > 1 => calls[k - 1].err = "nil"
    /\ mpc \in {"spawn", "wait", "exited"} =>
          /\ Len(calls) = numTokens
          /\ ~SomeCallFailed
          /\ fetchErr = "nil"
          /\ tokens = [k \in 1..numTokens |-> calls[k].token]
    /\ SomeCallFailed =>
          /\ mpc = "fatal"
          /\ fetchErr = LastCall.err
          /\ tokens = <<>>

\* C15: a call of Refresh on a source on which no Token call has succeeded
\* fails with the usage error, returns no token, leaves the source as it
\* was, and starts no run.
C15_RefreshBeforeToken ==
    [][(/\ Len(calls') = Len(calls) + 1
        /\ calls'[Len(calls')].method = "Refresh"
        /\ ~\E k \in 1..Len(calls) :
              calls[k].method = "Token" /\ calls[k].err = "nil")
         => /\ calls'[Len(calls')].err = "usage"
            /\ calls'[Len(calls')].token = Nil
            /\ panicked' = panicked
            /\ UNCHANGED <<spt, tokens, runs, mainWg>>]_vars

\* C15 witness: Refresh has been called twice on a fresh source and has
\* given the usage error both times.
C15_Witness ==
    /\ Len(calls) >= 2
    /\ \A k \in 1..Len(calls) :
          calls[k].method = "Refresh" /\ calls[k].err = "usage"
    /\ spt = Nil

\* C16: when the device flow fails, Token returns the error as a value,
\* nothing faults, and the process halts before any run starts.
C16_TokenFailureIsAnErrorValue ==
    (calls # <<>> /\ calls[1].method = "Token" /\ calls[1].err # "nil") =>
        /\ panicked = "none"
        /\ fetchErr = calls[1].err
        /\ mpc = "fatal"
        /\ \A t \in Slots : runs[t].pc = "none"

\* C17: main starts one run per acquired token, raises abort exactly when
\* it goes on to wait for the runs, and the process does not end while a
\* run it started has not returned.
C17_OneRunPerTokenJoined ==
    /\ \A t \in Slots :
          runs[t].pc # "none" => t <= Len(tokens) /\ runs[t].token = tokens[t]
    /\ abort <=> mpc \in {"wait", "exited"}
    /\ abort => \A t \in 1..Len(tokens) : runs[t].pc # "none"
    /\ ~Alive => Unreturned = {}

====
